---------------------------- MODULE Spec2Model ----------------------------
(***************************************************************************)
(* The lox driver (src/src/main.rs): main, run_file, run_prompt, run,      *)
(* error and report, together with the collaborators it calls.  The        *)
(* modules environment, scanner, parser and interpreter are declared in    *)
(* main.rs (lines 7-10) but their bodies are not part of the source tree;  *)
(* they are modelled from their contracts in spec.md (sections 4.1-4.4).   *)
(***************************************************************************)
EXTENDS Integers, Sequences, FiniteSets

\* ------------------------------------------------------------------ bounds

\* Items (statements, valid or not) in one source text; item i is on line i.
MaxStmts == 2
\* Largest character offset a ScanError carries.
MaxPos == 1
\* Input lines an interactive session passes to run before only
\* end-of-input or read errors remain.
MaxLines == 3
\* Scopes in the arena explored by the environment-only specification.
MaxScopes == 3

\* --------------------------------------------------------- program constants

ExitUsage == 64
ExitDataErr == 65
ExitSoftware == 70

Names == {"x"}
Vals == {1, 2}

\* ------------------------------------------------------------- environment
\* An arena of scope records; a handle is an index, parent 0 is "no parent".
\* Handles play the role of Rc<RefCell<Environment>>: copying a handle shares
\* the scope.

NoBindings == [n \in {} |-> 0]

Bind(vals, name, v) ==
    [n \in (DOMAIN vals) \cup {name} |-> IF n = name THEN v ELSE vals[n]]

EnvNew(es, parent) == Append(es, [parent |-> parent, vals |-> NoBindings])

EnvDefine(es, h, name, v) == [es EXCEPT ![h].vals = Bind(@, name, v)]

\* The nearest scope on the chain from h outward that binds name, or 0.
RECURSIVE EnvLookup(_, _, _)
EnvLookup(es, h, name) ==
    IF h = 0 THEN 0
    ELSE IF name \in DOMAIN es[h].vals THEN h
    ELSE EnvLookup(es, es[h].parent, name)

EnvGet(es, h, name) ==
    LET s == EnvLookup(es, h, name)
    IN  IF s = 0 THEN [ok |-> FALSE, val |-> 0]
        ELSE [ok |-> TRUE, val |-> es[s].vals[name]]

\* Faulty variant of assign: binds in the current scope instead of the holder.
EnvAssignDefines(es, h, name, v) ==
    LET s == EnvLookup(es, h, name)
    IN  IF s = 0 THEN [ok |-> FALSE, envs |-> es]
        ELSE [ok |-> TRUE, envs |-> EnvDefine(es, h, name, v)]

EnvAssign(es, h, name, v) ==
    LET s == EnvLookup(es, h, name)
    IN  IF s = 0 THEN [ok |-> FALSE, envs |-> es]
        ELSE [ok |-> TRUE, envs |-> [es EXCEPT ![s].vals[name] = v]]

\* ------------------------------------------------------------ source texts
\* A source text is abstracted to what the scanner and the parser make of it:
\* an optional lexical error, and a sequence of items, each a valid statement
\* or a syntax error whose offending token is present or absent (error at
\* end-of-input).

SimpleStmts ==
    {[op |-> "var", name |-> n, val |-> v] : n \in Names, v \in Vals}
    \cup {[op |-> "assign", name |-> n, val |-> v] : n \in Names, v \in Vals}
    \cup {[op |-> "print", name |-> n] : n \in Names}

BlockStmts == {[op |-> "block", body |-> <<s>>] : s \in SimpleStmts}

BadItems == {[op |-> "bad", atEnd |-> b] : b \in BOOLEAN}

Items == SimpleStmts \cup BlockStmts \cup BadItems

RECURSIVE SeqsUpTo(_, _)
SeqsUpTo(S, n) ==
    IF n = 0 THEN {<<>>}
    ELSE LET shorter == SeqsUpTo(S, n - 1)
         IN  shorter \cup {Append(q, x) : q \in {r \in shorter : Len(r) = n - 1}, x \in S}

ScanCauses == {"BadChar", "UnterminatedString", "NumberParseError"}

ScanErrors ==
    {[cause |-> c, line |-> l, position |-> p] :
        c \in ScanCauses, l \in 1..MaxStmts, p \in 0..MaxPos}

Sources ==
    {[lex |-> {}, items |-> q] : q \in SeqsUpTo(Items, MaxStmts)}
    \cup {[lex |-> {e}, items |-> q] : e \in ScanErrors, q \in SeqsUpTo(Items, 1)}

EmptySource == [lex |-> {}, items |-> <<>>]

HasLexError(src) == src.lex # {}

HasSyntaxError(src) == \E i \in 1..Len(src.items) : src.items[i].op = "bad"

\* ----------------------------------------------------------------- scanner

ScanTokens(src) ==
    IF src.lex # {}
    THEN [ok |-> FALSE, tokens |-> <<>>, err |-> src.lex]
    ELSE [ok |-> TRUE, tokens |-> src.items, err |-> {}]

\* ------------------------------------------------------------------ parser

RECURSIVE ParseFrom(_, _, _, _)
ParseFrom(toks, i, stmtsAcc, errsAcc) ==
    IF i > Len(toks) THEN [stmts |-> stmtsAcc, errs |-> errsAcc]
    ELSE IF toks[i].op = "bad"
    THEN ParseFrom(toks, i + 1, stmtsAcc,
            Append(errsAcc,
                   [token |-> IF toks[i].atEnd THEN {} ELSE {[line |-> i]},
                    message |-> "Expect expression."]))
    ELSE ParseFrom(toks, i + 1,
            Append(stmtsAcc, [stmt |-> toks[i], line |-> i]), errsAcc)

Parse(toks) ==
    LET r == ParseFrom(toks, 1, <<>>, <<>>)
    IN  IF r.errs = <<>>
        THEN [ok |-> TRUE, stmts |-> r.stmts, errs |-> <<>>]
        ELSE [ok |-> FALSE, stmts |-> <<>>, errs |-> r.errs]

\* ------------------------------------------------------------- interpreter

PrintLine(v) == [template |-> "{}", value |-> v]

UndefinedVariable(name, ln) ==
    [expr |-> name, line |-> ln, message |-> "Undefined variable."]

\* One statement against scope h; st = [envs, out, errs].
RECURSIVE Exec(_, _, _, _)
Exec(st, s, h, ln) ==
    IF s.op = "var" THEN [st EXCEPT !.envs = EnvDefine(@, h, s.name, s.val)]
    ELSE IF s.op = "assign" THEN
        LET r == EnvAssign(st.envs, h, s.name, s.val)
        IN  IF r.ok THEN [st EXCEPT !.envs = r.envs]
            ELSE [st EXCEPT !.errs = Append(@, UndefinedVariable(s.name, ln))]
    ELSE IF s.op = "print" THEN
        LET r == EnvGet(st.envs, h, s.name)
        IN  IF r.ok THEN [st EXCEPT !.out = Append(@, PrintLine(r.val))]
            ELSE [st EXCEPT !.errs = Append(@, UndefinedVariable(s.name, ln))]
    ELSE \* block: a child scope of h, discarded at the end of the block
        LET es1 == EnvNew(st.envs, h)
            child == Len(es1)
            r == Exec([st EXCEPT !.envs = es1], s.body[1], child, ln)
        IN  [r EXCEPT !.envs = SubSeq(@, 1, Len(@) - 1)]

RECURSIVE ExecFrom(_, _, _, _)
ExecFrom(st, stmts, i, h) ==
    IF i > Len(stmts) THEN st
    ELSE ExecFrom(Exec(st, stmts[i].stmt, h, stmts[i].line), stmts, i + 1, h)

Interpret(stmts, h, es) ==
    LET r == ExecFrom([envs |-> es, out |-> <<>>, errs |-> <<>>], stmts, 1, h)
    IN  [ok |-> r.errs = <<>>, envs |-> r.envs, out |-> r.out, errs |-> r.errs]


\* ------------------------------------------------------------ diagnostics

\* pub fn report: println!("[line {}] Error {}: {}", line, location, message)
\* Faulty variant of report: the message text lands in the location slot.
ReportSwapped(ln, location, message) ==
    [template |-> "[line {}] Error {}: {}",
     line |-> ln, location |-> message.format, message |-> message]

Report(ln, location, message) ==
    [template |-> "[line {}] Error {}: {}",
     line |-> ln, location |-> location, message |-> message]

\* pub fn error: report(line, "", message)
Error(ln, message) == Report(ln, "", message)

\* The three format! calls of run's ScanError arm.
ScanFormat(cause) ==
    IF cause = "BadChar" THEN "Unexpected character {} at {}"
    ELSE IF cause = "UnterminatedString" THEN "Unterminated string {} at {}"
    ELSE "Could not parse {} as a number at {} ({})"

ScanMessage(e) ==
    [format |-> ScanFormat(e.cause), token |-> {}, text |-> "",
     position |-> e.position]

\* format!("parser error on {:?}: {}", token, message)
ParseMessage(token, message) ==
    [format |-> "parser error on {:?}: {}", token |-> token, text |-> message,
     position |-> 0]

\* The line run tags a ParseError with: its token's line, or 0 without one.
\* Faulty variant: every ParseError is tagged with line 0.
ParseErrLineZero(token) == 0

ParseErrLine(token) ==
    IF token # {} THEN (CHOOSE t \in token : TRUE).line ELSE 0

\* println!("{} [line {}]: {}", message, line, expr)
RuntimeLine(e) ==
    [template |-> "{} [line {}]: {}",
     message |-> e.message, line |-> e.line, expr |-> e.expr]

UsageLine == [template |-> "Usage: jlox [script]"]

ReadErrorLine == [template |-> "error: {}"]

\* Result<(), LoxError>
NoResult == [done |-> FALSE, ok |-> FALSE, exit_code |-> 0]
Ok == [done |-> TRUE, ok |-> TRUE, exit_code |-> 0]
Err(code) == [done |-> TRUE, ok |-> FALSE, exit_code |-> code]

\* ------------------------------------------------------------------- state

VARIABLES
    argc,        \* args.len(): the program name plus the arguments
    pc,          \* position of the process
    status,      \* the process exit status, once pc = "exited"
    fileOpened,  \* run_file: File::open returned Ok
    env,         \* the handle held by run_file / run_prompt (0: none yet)
    envCreated,  \* calls of Environment::new(None) made so far
    envs,        \* the arena of scopes
    line,        \* run_prompt's counter
    shown,       \* the number printed in the last prompt
    nRead,       \* input lines read and passed to run so far
    lastRead,    \* outcome of the last read_line
    source,      \* run's source argument
    runEnv,      \* run's env argument
    tokens,      \* Ok value of scan_tokens
    stmts,       \* Ok value of parse
    scanErr,     \* Err value of scan_tokens
    errs,        \* Err value of parse or of interpret, being iterated
    idx,         \* next error of errs to print
    calls,       \* the stages run has invoked, with their outcome
    out,         \* what has been printed since the last prompt or entry to run
    runResult,   \* run's return value
    entryEnvs,   \* the arena as it was when run was entered
    lastOp       \* environment-only specification: the last operation applied

vars == <<argc, pc, status, fileOpened, env, envCreated, envs, line, shown,
          nRead, lastRead, source, runEnv, tokens, stmts, scanErr, errs, idx,
          calls, out, runResult, entryEnvs, lastOp>>

procVars == <<argc, status, fileOpened>>
envVars == <<env, envCreated, envs>>
promptVars == <<line, shown, nRead, lastRead>>
runVars == <<source, runEnv, tokens, stmts, scanErr, errs, idx, calls, out,
             runResult, entryEnvs>>

NoOp == [op |-> "none", h |-> 0, name |-> "", val |-> 0, ok |-> TRUE,
         got |-> 0, before |-> <<>>]

Mode == IF argc > 2 THEN "usage" ELSE IF argc = 2 THEN "file" ELSE "prompt"

RunStages == {"scan", "scan_err", "parse", "parse_err", "interpret",
              "runtime_err", "ret"}

Terminal == {"exited", "panicked"}

Init ==
    /\ argc \in 1..3
    /\ pc = "main"
    /\ status = 0
    /\ fileOpened = FALSE
    /\ env = 0
    /\ envCreated = 0
    /\ envs = <<>>
    /\ line = 0
    /\ shown = 0
    /\ nRead = 0
    /\ lastRead = "none"
    /\ source = EmptySource
    /\ runEnv = 0
    /\ tokens = <<>>
    /\ stmts = <<>>
    /\ scanErr = {}
    /\ errs = <<>>
    /\ idx = 0
    /\ calls = <<>>
    /\ out = <<>>
    /\ runResult = NoResult
    /\ entryEnvs = <<>>
    /\ lastOp = NoOp

\* -------------------------------------------------------------------- main

MainUsage ==
    /\ pc = "main"
    /\ argc > 2
    /\ out' = Append(out, UsageLine)
    /\ status' = ExitUsage
    /\ pc' = "exited"
    /\ UNCHANGED <<argc, fileOpened, envVars, promptVars, source, runEnv,
                   tokens, stmts, scanErr, errs, idx, calls, runResult,
                   entryEnvs, lastOp>>

MainRunFile ==
    /\ pc = "main"
    /\ argc = 2
    /\ pc' = "rf_open"
    /\ UNCHANGED <<procVars, envVars, promptVars, runVars, lastOp>>

MainRunPrompt ==
    /\ pc = "main"
    /\ argc < 2
    /\ pc' = "rp_enter"
    /\ UNCHANGED <<procVars, envVars, promptVars, runVars, lastOp>>

\* ----------------------------------------------------------- entry to run

\* The call run(source, env): the callee's locals are fresh.
CallRun(s, e) ==
    /\ source' = s
    /\ runEnv' = e
    /\ tokens' = <<>>
    /\ stmts' = <<>>
    /\ scanErr' = {}
    /\ errs' = <<>>
    /\ idx' = 0
    /\ calls' = <<>>
    /\ out' = <<>>
    /\ runResult' = NoResult
    /\ pc' = "scan"

\* ---------------------------------------------------------------- run_file

\* File::open, then (on Ok) Environment::new(None).
RunFileOpen ==
    /\ pc = "rf_open"
    /\ \E opened \in BOOLEAN :
        IF opened
        THEN /\ fileOpened' = TRUE
             /\ envs' = EnvNew(envs, 0)
             /\ env' = Len(envs) + 1
             /\ envCreated' = envCreated + 1
             /\ pc' = "rf_read"
        ELSE /\ pc' = "panicked"
             /\ UNCHANGED <<fileOpened, envVars>>
    /\ UNCHANGED <<argc, status, promptVars, runVars, lastOp>>

\* file.read_to_string, then (on Ok) run(&s, env).
RunFileRead ==
    /\ pc = "rf_read"
    /\ \/ /\ pc' = "panicked"
          /\ UNCHANGED <<runVars>>
       \/ \E s \in Sources :
            /\ CallRun(s, env)
            /\ entryEnvs' = envs
    /\ UNCHANGED <<procVars, envVars, promptVars, lastOp>>

\* Faulty variant of run_file: run's Err is ignored.
RunFileReturnIgnoresErr ==
    /\ pc = "ret"
    /\ Mode = "file"
    /\ status' = 0
    /\ pc' = "exited"
    /\ UNCHANGED <<argc, fileOpened, envVars, promptVars, runVars, lastOp>>

\* run returned to run_file: Ok falls through to the end of main, Err exits.
\* The process ends here; the final state keeps what run last held.
RunFileReturn ==
    /\ pc = "ret"
    /\ Mode = "file"
    /\ status' = IF runResult.ok THEN 0 ELSE runResult.exit_code
    /\ pc' = "exited"
    /\ UNCHANGED <<argc, fileOpened, envVars, promptVars, runVars, lastOp>>

\* -------------------------------------------------------------- run_prompt

\* let mut line = 1; let env = Rc::new(RefCell::new(Environment::new(None)));
RunPromptEnter ==
    /\ pc = "rp_enter"
    /\ line' = 1
    /\ envs' = EnvNew(envs, 0)
    /\ env' = Len(envs) + 1
    /\ envCreated' = envCreated + 1
    /\ pc' = "rp_prompt"
    /\ UNCHANGED <<procVars, shown, nRead, lastRead, runVars, lastOp>>

\* print!("[{}] ", line); stdout().flush(), which panics on Err.
RunPromptPrompt ==
    /\ pc = "rp_prompt"
    /\ shown' = line
    /\ out' = <<>>
    /\ \E flushed \in BOOLEAN :
        pc' = IF flushed THEN "rp_read" ELSE "panicked"
    /\ UNCHANGED <<procVars, envVars, line, nRead, lastRead, source, runEnv,
                   tokens, stmts, scanErr, errs, idx, calls, runResult,
                   entryEnvs, lastOp>>

\* Faulty variant of run_prompt: run is handed a copy of the environment.
RunPromptReadCopies ==
    /\ pc = "rp_read"
    /\ \/ /\ lastRead' = "eof"
          /\ status' = 0
          /\ pc' = "exited"
          /\ UNCHANGED <<nRead, runVars, envs>>
       \/ /\ lastRead' = "ioerr"
          /\ out' = Append(out, ReadErrorLine)
          /\ pc' = "rp_prompt"
          /\ UNCHANGED <<status, nRead, source, runEnv, tokens, stmts, scanErr,
                         errs, idx, calls, runResult, entryEnvs, envs>>
       \/ /\ nRead < MaxLines
          /\ \E s \in Sources :
                /\ lastRead' = "line"
                /\ nRead' = nRead + 1
                /\ envs' = Append(envs, envs[env])
                /\ CallRun(s, Len(envs) + 1)
                /\ entryEnvs' = envs'
                /\ UNCHANGED status
    /\ UNCHANGED <<argc, fileOpened, env, envCreated, line, shown, lastOp>>

\* stdin().read_line: Ok(0) breaks the loop and main returns; Ok(_) calls
\* run(&input, env.clone()); Err prints and loops.
RunPromptRead ==
    /\ pc = "rp_read"
    /\ \/ /\ lastRead' = "eof"
          /\ status' = 0
          /\ pc' = "exited"
          /\ UNCHANGED <<nRead, runVars>>
       \/ /\ lastRead' = "ioerr"
          /\ out' = Append(out, ReadErrorLine)
          /\ pc' = "rp_prompt"
          /\ UNCHANGED <<status, nRead, source, runEnv, tokens, stmts, scanErr,
                         errs, idx, calls, runResult, entryEnvs>>
       \/ /\ nRead < MaxLines
          /\ \E s \in Sources :
                /\ lastRead' = "line"
                /\ nRead' = nRead + 1
                /\ CallRun(s, env)
                /\ entryEnvs' = envs
                /\ UNCHANGED status
    /\ UNCHANGED <<argc, fileOpened, envVars, line, shown, lastOp>>

\* run's frame and the iteration's input string are dropped; the matched
\* result is kept until the next call.
DropFrame ==
    /\ source' = EmptySource
    /\ tokens' = <<>>
    /\ stmts' = <<>>
    /\ scanErr' = {}
    /\ errs' = <<>>
    /\ idx' = 0
    /\ calls' = <<>>
    /\ UNCHANGED <<runEnv, out, runResult, entryEnvs>>

\* Faulty variant of run_prompt: an Err exits as in run_file.
RunPromptReturnExitsOnErr ==
    /\ pc = "ret"
    /\ Mode = "prompt"
    /\ IF runResult.ok
       THEN /\ line' = line + 1
            /\ pc' = "rp_prompt"
            /\ UNCHANGED status
       ELSE /\ status' = runResult.exit_code
            /\ pc' = "exited"
            /\ UNCHANGED line
    /\ DropFrame
    /\ UNCHANGED <<argc, fileOpened, envVars, shown, nRead, lastRead, lastOp>>

\* Faulty variant of run_prompt: only the Ok arm counts the line.
RunPromptReturnCountsOk ==
    /\ pc = "ret"
    /\ Mode = "prompt"
    /\ line' = IF runResult.ok THEN line + 1 ELSE line
    /\ pc' = "rp_prompt"
    /\ DropFrame
    /\ UNCHANGED <<procVars, envVars, shown, nRead, lastRead, lastOp>>

\* run returned to run_prompt: both arms are line += 1, then the loop repeats.
RunPromptReturn ==
    /\ pc = "ret"
    /\ Mode = "prompt"
    /\ line' = line + 1
    /\ pc' = "rp_prompt"
    /\ DropFrame
    /\ UNCHANGED <<procVars, envVars, shown, nRead, lastRead, lastOp>>

\* --------------------------------------------------------------------- run

Call(stage, ok) == [stage |-> stage, ok |-> ok]

\* Faulty variant of run: parsing goes ahead after a failed scan.
RunScanLenient ==
    /\ pc = "scan"
    /\ LET r == ScanTokens(source)
       IN  /\ calls' = Append(calls, Call("scan", r.ok))
           /\ tokens' = IF r.ok THEN r.tokens ELSE source.items
           /\ scanErr' = r.err
           /\ pc' = "parse"
    /\ UNCHANGED <<procVars, envVars, promptVars, source, runEnv, stmts, errs,
                   idx, out, runResult, entryEnvs, lastOp>>

\* match scanner::scan_tokens(source)
RunScan ==
    /\ pc = "scan"
    /\ LET r == ScanTokens(source)
       IN  /\ calls' = Append(calls, Call("scan", r.ok))
           /\ tokens' = r.tokens
           /\ scanErr' = r.err
           /\ pc' = IF r.ok THEN "parse" ELSE "scan_err"
    /\ UNCHANGED <<procVars, envVars, promptVars, source, runEnv, stmts, errs,
                   idx, out, runResult, entryEnvs, lastOp>>

\* The Err(ScanError) arm: one error(...) call, then Err with exit_code 65.
RunScanErr ==
    /\ pc = "scan_err"
    /\ LET e == CHOOSE x \in scanErr : TRUE
       IN  out' = Append(out, Error(e.line, ScanMessage(e)))
    /\ runResult' = Err(ExitDataErr)
    /\ pc' = "ret"
    /\ UNCHANGED <<procVars, envVars, promptVars, source, runEnv, tokens,
                   stmts, scanErr, errs, idx, calls, entryEnvs, lastOp>>

\* Faulty variant of run: the statements that did parse are interpreted
\* although parse recorded errors.
RunParseLenient ==
    /\ pc = "parse"
    /\ LET r == ParseFrom(tokens, 1, <<>>, <<>>)
       IN  /\ calls' = Append(calls, Call("parse", r.errs = <<>>))
           /\ stmts' = r.stmts
           /\ errs' = <<>>
           /\ idx' = 1
           /\ pc' = "interpret"
    /\ UNCHANGED <<procVars, envVars, promptVars, source, runEnv, tokens,
                   scanErr, out, runResult, entryEnvs, lastOp>>

\* match parser::parse(&tokens[..])
RunParse ==
    /\ pc = "parse"
    /\ LET r == Parse(tokens)
       IN  /\ calls' = Append(calls, Call("parse", r.ok))
           /\ stmts' = r.stmts
           /\ errs' = r.errs
           /\ idx' = 1
           /\ pc' = IF r.ok THEN "interpret" ELSE "parse_err"
    /\ UNCHANGED <<procVars, envVars, promptVars, source, runEnv, tokens,
                   scanErr, out, runResult, entryEnvs, lastOp>>

\* One iteration of: for parser::ParseError { token, message } in errs
RunParseErrStep ==
    /\ pc = "parse_err"
    /\ idx <= Len(errs)
    /\ LET e == errs[idx]
       IN  out' = Append(out,
                Error(ParseErrLine(e.token), ParseMessage(e.token, e.message)))
    /\ idx' = idx + 1
    /\ UNCHANGED <<procVars, envVars, promptVars, source, runEnv, tokens,
                   stmts, scanErr, errs, calls, runResult, entryEnvs, pc,
                   lastOp>>

\* After the loop: return Err(LoxError { exit_code: 65 })
RunParseErrDone ==
    /\ pc = "parse_err"
    /\ idx > Len(errs)
    /\ runResult' = Err(ExitDataErr)
    /\ pc' = "ret"
    /\ UNCHANGED <<procVars, envVars, promptVars, source, runEnv, tokens,
                   stmts, scanErr, errs, idx, calls, out, entryEnvs, lastOp>>

\* Faulty variant of run: interprets against a top-level environment of its own.
RunInterpretFreshEnv ==
    /\ pc = "interpret"
    /\ LET es1 == EnvNew(envs, 0)
           r == Interpret(stmts, Len(es1), es1)
       IN  /\ calls' = Append(calls, Call("interpret", r.ok))
           /\ envs' = r.envs
           /\ envCreated' = envCreated + 1
           /\ out' = out \o r.out
           /\ errs' = r.errs
           /\ idx' = 1
           /\ runResult' = IF r.ok THEN Ok ELSE NoResult
           /\ pc' = IF r.ok THEN "ret" ELSE "runtime_err"
    /\ UNCHANGED <<procVars, env, promptVars, source, runEnv, tokens, stmts,
                   scanErr, entryEnvs, lastOp>>

\* match interpret(&stmts, env): Ok(()) returns Ok(()).
RunInterpret ==
    /\ pc = "interpret"
    /\ LET r == Interpret(stmts, runEnv, envs)
       IN  /\ calls' = Append(calls, Call("interpret", r.ok))
           /\ envs' = r.envs
           /\ out' = out \o r.out
           /\ errs' = r.errs
           /\ idx' = 1
           /\ runResult' = IF r.ok THEN Ok ELSE NoResult
           /\ pc' = IF r.ok THEN "ret" ELSE "runtime_err"
    /\ UNCHANGED <<procVars, env, envCreated, promptVars, source, runEnv,
                   tokens, stmts, scanErr, entryEnvs, lastOp>>

\* One iteration of: for interpreter::RuntimeError { expr, line, message } in errs
RunRuntimeErrStep ==
    /\ pc = "runtime_err"
    /\ idx <= Len(errs)
    /\ out' = Append(out, RuntimeLine(errs[idx]))
    /\ idx' = idx + 1
    /\ UNCHANGED <<procVars, envVars, promptVars, source, runEnv, tokens,
                   stmts, scanErr, errs, calls, runResult, entryEnvs, pc,
                   lastOp>>

\* After the loop: return Err(LoxError { exit_code: 70 })
RunRuntimeErrDone ==
    /\ pc = "runtime_err"
    /\ idx > Len(errs)
    /\ runResult' = Err(ExitSoftware)
    /\ pc' = "ret"
    /\ UNCHANGED <<procVars, envVars, promptVars, source, runEnv, tokens,
                   stmts, scanErr, errs, idx, calls, out, entryEnvs, lastOp>>

\* ----------------------------------------------------------- specification

Next ==
    \/ MainUsage
    \/ MainRunFile
    \/ MainRunPrompt
    \/ RunFileOpen
    \/ RunFileRead
    \/ RunFileReturn
    \/ RunPromptEnter
    \/ RunPromptPrompt
    \/ RunPromptRead
    \/ RunPromptReturn
    \/ RunScan
    \/ RunScanErr
    \/ RunParse
    \/ RunParseErrStep
    \/ RunParseErrDone
    \/ RunInterpret
    \/ RunRuntimeErrStep
    \/ RunRuntimeErrDone

Spec == Init /\ [][Next]_vars

\* --------------------------------- the environment on its own (SpecEnv)
\* Environment's operations applied, in any order and from any scope, to an
\* arena of scopes that starts as one top-level scope.

driverVars == <<argc, pc, status, fileOpened, env, envCreated, line, shown,
                nRead, lastRead, source, runEnv, tokens, stmts, scanErr, errs,
                idx, calls, out, runResult, entryEnvs>>

InitEnv ==
    /\ argc = 1
    /\ pc = "env"
    /\ status = 0
    /\ fileOpened = FALSE
    /\ env = 1
    /\ envCreated = 1
    /\ envs = EnvNew(<<>>, 0)
    /\ line = 0
    /\ shown = 0
    /\ nRead = 0
    /\ lastRead = "none"
    /\ source = EmptySource
    /\ runEnv = 0
    /\ tokens = <<>>
    /\ stmts = <<>>
    /\ scanErr = {}
    /\ errs = <<>>
    /\ idx = 0
    /\ calls = <<>>
    /\ out = <<>>
    /\ runResult = NoResult
    /\ entryEnvs = <<>>
    /\ lastOp = NoOp

Op(op, h, name, v, ok, got) ==
    [op |-> op, h |-> h, name |-> name, val |-> v, ok |-> ok, got |-> got,
     before |-> envs]

EnvOpNew ==
    /\ pc = "env"
    /\ Len(envs) < MaxScopes
    /\ \E p \in 0..Len(envs) :
        /\ envs' = EnvNew(envs, p)
        /\ lastOp' = Op("new", p, "", 0, TRUE, 0)
    /\ UNCHANGED driverVars

EnvOpDefine ==
    /\ pc = "env"
    /\ \E h \in 1..Len(envs), n \in Names, v \in Vals :
        /\ envs' = EnvDefine(envs, h, n, v)
        /\ lastOp' = Op("define", h, n, v, TRUE, 0)
    /\ UNCHANGED driverVars

EnvOpGet ==
    /\ pc = "env"
    /\ \E h \in 1..Len(envs), n \in Names :
        LET r == EnvGet(envs, h, n)
        IN  /\ lastOp' = Op("get", h, n, 0, r.ok, r.val)
            /\ UNCHANGED envs
    /\ UNCHANGED driverVars

EnvOpAssign ==
    /\ pc = "env"
    /\ \E h \in 1..Len(envs), n \in Names, v \in Vals :
        LET r == EnvAssign(envs, h, n, v)
        IN  /\ envs' = r.envs
            /\ lastOp' = Op("assign", h, n, v, r.ok, 0)
    /\ UNCHANGED driverVars

NextEnv ==
    \/ EnvOpNew
    \/ EnvOpDefine
    \/ EnvOpGet
    \/ EnvOpAssign

SpecEnv == InitEnv /\ [][NextEnv]_vars

\* ------------------------------------------------------------- properties

ScanFailed == Len(calls) = 1 /\ ~calls[1].ok
ParseFailed == Len(calls) = 2 /\ ~calls[2].ok
InterpretFailed == Len(calls) = 3 /\ ~calls[3].ok
AllStagesOk == Len(calls) = 3 /\ \A i \in 1..3 : calls[i].ok

IsReportLine(d) == d.template = "[line {}] Error {}: {}"
IsRuntimeLine(d) == d.template = "{} [line {}]: {}"
IsPrintLine(d) == d.template = "{}"

\* C1: in file mode the exit status is 65 after a failed scan or parse, 70
\* after an interpretation that returned runtime errors and 0 after a run
\* without error; with more than one argument the process exits with 64 and
\* no stage is ever invoked.
C1_ExitStatus ==
    /\ (Mode = "usage") =>
          /\ pc \in {"main", "exited"}
          /\ calls = <<>>
          /\ (pc = "exited" => status = 64)
    /\ (Mode = "file" /\ pc = "exited") =>
          /\ (ScanFailed \/ ParseFailed) => status = 65
          /\ InterpretFailed => status = 70
          /\ AllStagesOk => status = 0
          /\ ScanFailed \/ ParseFailed \/ InterpretFailed \/ AllStagesOk
          /\ ScanFailed <=> HasLexError(source)
          /\ ParseFailed <=> (~HasLexError(source) /\ HasSyntaxError(source))

C1_Witness ==
    /\ Mode = "file"
    /\ pc = "exited"
    /\ InterpretFailed
    /\ status = 70

\* C2: in an interactive session every call of run is handed the session's
\* one environment handle, the same for line n+1 as for line n, and nothing
\* between the end of one line's run and the start of the next touches the
\* bindings, so a later line observes what earlier lines defined or assigned.
C2_EnvPersists ==
    [][(Mode = "prompt" /\ pc # "rp_enter") =>
          /\ env' = env
          /\ (pc = "rp_read" /\ pc' = "scan") =>
                /\ runEnv' = env
                /\ nRead >= 1 => runEnv' = runEnv
                /\ envs' = envs
          /\ (pc \in {"ret", "rp_prompt", "rp_read"}) => envs' = envs]_vars

C2_Witness ==
    /\ Mode = "prompt"
    /\ pc = "ret"
    /\ nRead >= 2
    /\ source.items = <<[op |-> "print", name |-> "x"]>>
    /\ out = <<[template |-> "{}", value |-> 1]>>

\* C3: within one call of run the stages are invoked in the order scan,
\* parse, interpret, each only after the previous one returned Ok; the
\* diagnostics one run prints are all of one kind; and for a source with a
\* lexical or syntax error interpret is never invoked and nothing is printed
\* by a statement.
DiagKind(d) ==
    IF IsRuntimeLine(d) THEN "runtime"
    ELSE IF d.message.format = "parser error on {:?}: {}" THEN "parse"
    ELSE "scan"

C3_StagesGated ==
    /\ Len(calls) <= 3
    /\ \A i \in 1..Len(calls) :
          /\ calls[i].stage = <<"scan", "parse", "interpret">>[i]
          /\ i < Len(calls) => calls[i].ok
    /\ (pc \in RunStages) =>
          /\ Cardinality({DiagKind(out[i]) :
                i \in {j \in 1..Len(out) : ~IsPrintLine(out[j])}}) <= 1
          /\ (HasLexError(source) \/ HasSyntaxError(source)) =>
                /\ \A i \in 1..Len(calls) : calls[i].stage # "interpret"
                /\ \A i \in 1..Len(out) : ~IsPrintLine(out[i])

C3_Witness ==
    /\ pc = "ret"
    /\ ParseFailed
    /\ \E i \in 1..Len(source.items) : source.items[i].op = "var"

\* C4 as stated: after a parse that returned k errors, k diagnostics have
\* been printed, the i-th tagged with the line of the i-th error's own
\* offending token, for every error, also one without an offending token.
C4_Original ==
    (pc = "ret" /\ ParseFailed) =>
        /\ Len(out) = Len(errs)
        /\ \A i \in 1..Len(errs) :
              \E tok \in errs[i].token : out[i].line = tok.line

\* C4 amended: the k >= 1 errors of a failed parse are reported one by one in
\* their order, the i-th tagged with the line of its offending token, or with
\* line 0 when it has none; the single Err with exit code 65 is returned only
\* once all k have been reported.
C4_ParseErrorsReported ==
    (ParseFailed /\ pc \in {"parse_err", "ret"}) =>
        /\ Len(errs) >= 1
        /\ Len(errs) = Cardinality({i \in 1..Len(source.items) :
                            source.items[i].op = "bad"})
        /\ Len(out) = idx - 1
        /\ Len(out) <= Len(errs)
        /\ \A i \in 1..Len(out) :
              /\ IsReportLine(out[i])
              /\ out[i].message.token = errs[i].token
              /\ out[i].message.text = errs[i].message
              /\ \A tok \in errs[i].token : out[i].line = tok.line
              /\ errs[i].token = {} => out[i].line = 0
        /\ (pc = "parse_err") => ~runResult.done
        /\ (pc = "ret") =>
              /\ Len(out) = Len(errs)
              /\ runResult = [done |-> TRUE, ok |-> FALSE, exit_code |-> 65]

C4_Witness ==
    /\ pc = "ret"
    /\ ParseFailed
    /\ Len(errs) = 2
    /\ errs[1].token = {[line |-> 1]}
    /\ errs[2].token = {}
    /\ Len(out) = 2

\* C5 as stated: every scan or parse diagnostic carries a location that
\* identifies where the error occurred.
C5_Original ==
    (pc \in RunStages) =>
        \A i \in 1..Len(out) : IsReportLine(out[i]) => out[i].location # ""

\* C5 amended: every scan or parse error is printed in the form
\* "[line N] Error <location>: <message>" with <location> always empty (the
\* position or the token is part of <message>) and N the scan error's line,
\* the offending token's line or 0 without a token; every runtime error is
\* printed as "<message> [line N]: <expr>" with its own message, line and
\* expression.
RuntimeLinesOf(q) == SelectSeq(q, IsRuntimeLine)

C5_DiagnosticForms ==
    /\ (pc = "ret" /\ ScanFailed) =>
          \E e \in scanErr :
             out = <<[template |-> "[line {}] Error {}: {}",
                      line |-> e.line,
                      location |-> "",
                      message |-> [format |->
                                      IF e.cause = "BadChar"
                                      THEN "Unexpected character {} at {}"
                                      ELSE IF e.cause = "UnterminatedString"
                                      THEN "Unterminated string {} at {}"
                                      ELSE "Could not parse {} as a number at {} ({})",
                                   token |-> {}, text |-> "",
                                   position |-> e.position]]>>
    /\ (pc = "ret" /\ ParseFailed) =>
          /\ Len(out) = Len(errs)
          /\ \A i \in 1..Len(errs) :
                out[i] = [template |-> "[line {}] Error {}: {}",
                          line |-> IF errs[i].token = {} THEN 0
                                   ELSE (CHOOSE tok \in errs[i].token : TRUE).line,
                          location |-> "",
                          message |-> [format |-> "parser error on {:?}: {}",
                                       token |-> errs[i].token,
                                       text |-> errs[i].message,
                                       position |-> 0]]
    /\ (pc = "ret" /\ InterpretFailed) =>
          /\ Len(RuntimeLinesOf(out)) = Len(errs)
          /\ Len(errs) >= 1
          /\ \A i \in 1..Len(errs) :
                RuntimeLinesOf(out)[i] =
                    [template |-> "{} [line {}]: {}",
                     message |-> errs[i].message,
                     line |-> errs[i].line,
                     expr |-> errs[i].expr]
    /\ (pc \in RunStages) =>
          \A i \in 1..Len(out) :
             IsReportLine(out[i]) \/ IsRuntimeLine(out[i]) \/ IsPrintLine(out[i])

C5_Witness ==
    /\ pc = "ret"
    /\ ScanFailed
    /\ scanErr = {[cause |-> "UnterminatedString", line |-> 2, position |-> 1]}
    /\ Len(out) = 1

\* C6 as stated: on every execution path of run_file and run_prompt exactly
\* one top-level environment has been created.
C6_Original ==
    (Mode \in {"file", "prompt"} /\ pc \in Terminal) => envCreated = 1

\* C6 amended: run_file creates one top-level environment (no parent) once
\* the file has been opened, and none on the path where opening it fails;
\* run_prompt creates one on entry; in both it exists before any source is
\* run, and run neither creates nor replaces it.
C6_OneTopLevelEnv ==
    /\ envCreated <= 1
    /\ (Mode = "file" /\ pc \notin {"main", "rf_open"}) =>
          envCreated = (IF fileOpened THEN 1 ELSE 0)
    /\ (Mode = "file" /\ pc \in Terminal /\ ~fileOpened) => pc = "panicked"
    /\ (Mode = "prompt" /\ pc \notin {"main", "rp_enter"}) => envCreated = 1
    /\ (pc \in RunStages) =>
          /\ envCreated = 1
          /\ runEnv = env
          /\ env \in 1..Len(envs)
          /\ envs[env].parent = 0
          /\ Len(envs) = 1

C6_Witness ==
    /\ Mode = "prompt"
    /\ pc = "ret"
    /\ nRead = 2
    /\ envCreated = 1
    /\ AllStagesOk

\* The scopes on the chain from h outward, h included.
RECURSIVE Chain(_, _)
Chain(es, h) == IF h = 0 THEN {} ELSE {h} \cup Chain(es, es[h].parent)

Binders(es, name) == {s \in 1..Len(es) : name \in DOMAIN es[s].vals}

\* C7: assign(name, v) from a scope h on a name bound only in one proper
\* ancestor a of h updates a's binding in place, binds nothing in h and
\* changes no other scope, after which get(name) from every scope whose chain
\* reaches a returns v; assign on a name bound nowhere on h's chain fails and
\* leaves every scope as it was.
C7_AssignShared ==
    (pc = "env" /\ lastOp.op = "assign") =>
        LET b == lastOp.before
            h == lastOp.h
            n == lastOp.name
            v == lastOp.val
        IN  /\ (Binders(b, n) \cap Chain(b, h) = {}) =>
                  /\ ~lastOp.ok
                  /\ envs = b
            /\ \A a \in Chain(b, h) \ {h} :
                  (Binders(b, n) = {a}) =>
                      /\ lastOp.ok
                      /\ envs[a].vals[n] = v
                      /\ n \notin DOMAIN envs[h].vals
                      /\ Len(envs) = Len(b)
                      /\ \A s \in 1..Len(b) : s # a => envs[s] = b[s]
                      /\ \A s \in 1..Len(envs) :
                            a \in Chain(envs, s) =>
                                EnvGet(envs, s, n) = [ok |-> TRUE, val |-> v]

C7_Witness ==
    /\ pc = "env"
    /\ lastOp.op = "assign"
    /\ lastOp.ok
    /\ \E a \in Chain(lastOp.before, lastOp.h) \ {lastOp.h} :
          /\ Binders(lastOp.before, lastOp.name) = {a}
          /\ lastOp.before[a].vals[lastOp.name] # lastOp.val
          /\ \E s \in 1..Len(envs) :
                /\ s \notin {a, lastOp.h}
                /\ envs[s].parent = a
                /\ envs[lastOp.h].parent = a

\* C8: while run works on a source that has a lexical or a syntax error,
\* and after it has returned the failure (exit code 65) until the next line
\* is run, the arena is as it was when that run was entered: the line after
\* an invalid line of an interactive session sees the bindings that were
\* visible before it.
C8_InvalidInputKeepsEnv ==
    (HasLexError(source) \/ HasSyntaxError(source) \/ runResult.exit_code = 65)
        => envs = entryEnvs

C8_Witness ==
    /\ Mode = "prompt"
    /\ pc = "ret"
    /\ runResult.exit_code = 65
    /\ nRead >= 2
    /\ HasSyntaxError(source)
    /\ \E i \in 1..Len(source.items) :
          source.items[i] = [op |-> "var", name |-> "x", val |-> 2]
    /\ envs[env].vals = [n \in {"x"} |-> 1]

\* C9 as stated: an interactive session ends only when reading input
\* returns zero bytes, and then the process exits normally.
C9_Original ==
    [][(Mode = "prompt" /\ pc \notin Terminal /\ pc' \in Terminal) =>
          /\ pc = "rp_read"
          /\ lastRead' = "eof"
          /\ pc' = "exited"
          /\ status' = 0]_vars

\* C9 amended: no scan, parse or runtime error ends an interactive session:
\* after run returns, Ok or Err, the loop prompts again and the exit code is
\* never used as a process status; the session ends only when reading input
\* returns zero bytes, upon which the process exits normally at once, or
\* when flushing the prompt fails, upon which it panics.
C9_SessionEnds ==
    [][(Mode = "prompt") =>
          /\ status' = 0
          /\ (pc = "ret") => pc' = "rp_prompt"
          /\ (pc = "rp_prompt") => pc' \in {"rp_read", "panicked"}
          /\ (pc = "rp_read" /\ lastRead' = "eof") => pc' = "exited"
          /\ (pc \notin Terminal /\ pc' \in Terminal) =>
                \/ pc = "rp_read" /\ lastRead' = "eof" /\ pc' = "exited"
                \/ pc = "rp_prompt" /\ pc' = "panicked"]_vars

C9_Witness ==
    /\ Mode = "prompt"
    /\ pc = "exited"
    /\ status = 0
    /\ lastRead = "eof"
    /\ nRead = 2
    /\ runResult = [done |-> TRUE, ok |-> FALSE, exit_code |-> 70]

\* C10: the prompt counter starts at 1 and the number shown at every prompt
\* is 1 plus the number of input lines read and passed to run so far,
\* whether run returned Ok or Err; a failed read leaves it unchanged.
C10_PromptCounter ==
    (Mode = "prompt") =>
        /\ (pc = "rp_prompt") => line = 1 + nRead
        /\ (pc = "rp_read") => (shown = 1 + nRead /\ line = shown)
        /\ (pc \in RunStages) => (line = nRead /\ shown = nRead)
        /\ (pc = "rp_read" /\ nRead = 0) => shown = 1

C10_Witness ==
    /\ Mode = "prompt"
    /\ pc = "rp_read"
    /\ lastRead = "ioerr"
    /\ nRead = 2
    /\ shown = 3
    /\ runResult = [done |-> TRUE, ok |-> FALSE, exit_code |-> 65]

=============================================================================
